---- MODULE Spec2Model ----
(***************************************************************************)
(* Model of the OpenVPN 3 Linux configuration manager                      *)
(* (src/src/configmgr/configmgr.hpp): the ConfigManagerObject registry,    *)
(* the ConfigurationObject profiles it owns, and the ConfigurationAlias    *)
(* objects, as a state machine with one action per D-Bus callback.         *)
(*                                                                         *)
(* The D-Bus glue (DBusObject, DBusCredentials, generate_path_uuid) lives  *)
(* in headers that configmgr.hpp only includes; those parts are modelled   *)
(* from the written specification and are marked as such below.            *)
(***************************************************************************)
EXTENDS Integers, Sequences, FiniteSets, TLC

(* ------------------------------------------------------------------ *)
(* Bounds of the model                                                 *)
(* ------------------------------------------------------------------ *)

\* Number of object paths generate_path_uuid can hand out.
MaxProfiles == 2

\* Cap on used_count (an unsigned int in the code); Fetch by the backend is
\* not taken once a profile's counter has reached the cap.
MaxUsed == 2

\* Number of Fetch calls that can be in flight on the bus at once.
MaxPending == 2

(* ------------------------------------------------------------------ *)
(* Values                                                              *)
(* ------------------------------------------------------------------ *)

\* The uid the Fetch handler treats as the backend VPN client (root).
Root == 0

\* Callers: root and two unprivileged users.
Subjects == {Root, 1000, 2000}

Ids == 1..MaxProfiles

\* std::time(nullptr): the model has one instant; 0 stands for "never".
Clock == {1}

PendingSlots == 1..MaxPending

\* alias == nullptr
NoAlias == "<nullptr>"

\* Strings a caller may send as an alias; "" does not give an object path.
AliasInputs == {"", "a1", "a2"}

\* Profile names a caller may send.
NameInputs == {"work", "home"}

\* Writable and non-writable property names a caller may send.
PropNames == {"alias", "name", "locked_down", "public_access", "persist_tun",
              "owner", "single_use", "persistent"}

VARIABLES
    config_objects, \* ConfigManagerObject::config_objects: the keys of the map
    bus,            \* object paths of ConfigurationObjects registered on D-Bus
    obj,            \* the ConfigurationObject allocated for each path
    alias_bus,      \* registered ConfigurationAlias objects: name -> cfgpath
    issued,         \* paths generate_path_uuid has returned so far
    idle_refs,      \* IdleCheck reference count
    pending,        \* Fetch calls in flight: slot -> call
    last,           \* the call handled last and the reply it got
    log,            \* log events the last handler emitted
    fetched,        \* per live path: successful Fetch calls by root so far
    erased,         \* per path: runs of ~ConfigurationObject so far
    detached,       \* the alias the last call took off its profile, if any
    prior           \* the access list the last grant or revoke found

vars == <<config_objects, bus, obj, alias_bus, issued, idle_refs, pending,
          last, log, fetched, erased, detached, prior>>

\* A path for which no ConfigurationObject was ever constructed.
NoObject ==
    [alive |-> FALSE, owner |-> Root, acl_list |-> {}, acl_public |-> FALSE,
     name |-> "", import_tstamp |-> 0, last_use_tstamp |-> 0,
     used_count |-> 0, valid |-> FALSE, readonly |-> FALSE,
     single_use |-> FALSE, persistent |-> FALSE, locked_down |-> FALSE,
     persist_tun |-> FALSE, alias |-> NoAlias]

NoCall == [op |-> "none", sender |-> Root, id |-> 0]

NoReply == [op |-> "none", sender |-> Root, id |-> 0, res |-> "none",
            arg |-> <<>>, val |-> <<>>, sent |-> <<>>]

\* The call handled and what was sent back on its invocation: sent lists
\* the calls of g_dbus_method_invocation_return_value ("value") and of
\* return_dbus_error / SetDBusError / a thrown property error ("error").
Reply(op, sender, id, res, arg, val) ==
    [op |-> op, sender |-> sender, id |-> id, res |-> res, arg |-> arg,
     val |-> val, sent |-> <<IF res = "ok" THEN "value" ELSE "error">>]

Init ==
    /\ config_objects = {}
    /\ bus = {}
    /\ obj = [i \in Ids |-> NoObject]
    /\ alias_bus = [a \in AliasInputs |-> 0]
    /\ issued = {}
    /\ idle_refs = 0
    /\ pending = [k \in PendingSlots |-> NoCall]
    /\ last = NoReply
    /\ log = <<>>
    /\ fetched = [i \in Ids |-> 0]
    /\ erased = [i \in Ids |-> 0]
    /\ detached = NoAlias
    /\ prior = {}

(* ------------------------------------------------------------------ *)
(* DBusCredentials (dbus/connection-creds.hpp, modelled from the spec) *)
(* ------------------------------------------------------------------ *)

\* GetUID(sender): the uid of the bus name; callers are named by their uid.
GetUID(sender) == sender

\* CheckOwnerAccess(sender, allow_root): TRUE when no exception is thrown.
CheckOwnerAccess(o, sender, allow_root) ==
    \/ GetUID(sender) = o.owner
    \/ allow_root /\ GetUID(sender) = Root

\* CheckACL(sender, allow_root): TRUE when no exception is thrown.
CheckACL(o, sender, allow_root) ==
    \/ GetUID(sender) = o.owner
    \/ allow_root /\ GetUID(sender) = Root
    \/ GetUID(sender) \in o.acl_list
    \/ o.acl_public

\* GrantAccess(uid) / RevokeAccess(uid) on the access list.
GrantAccess(o, uid) == [o EXCEPT !.acl_list = @ \cup {uid}]

RevokeAccess(o, uid) == [o EXCEPT !.acl_list = @ \ {uid}]

SetPublicAccess(o, b) == [o EXCEPT !.acl_public = b]

(* ------------------------------------------------------------------ *)
(* ConfigurationAlias                                                  *)
(* ------------------------------------------------------------------ *)

\* g_variant_is_object_path(".../aliases/" + aliasname) for the inputs above.
IsAliasObjectPath(aliasname) == aliasname # ""

\* DBusObject::RegisterObject for an alias (modelled from the spec): fails
\* when the alias path is already registered.
AliasPathFree(ab, aliasname) == ab[aliasname] = 0

(* ------------------------------------------------------------------ *)
(* ConfigurationObject                                                 *)
(* ------------------------------------------------------------------ *)

\* NewObject with the creator argument not used for the owner.
NewObjectOwnedByRoot(creator, nm, su, pers, ld, t) ==
    [alive |-> TRUE, owner |-> Root, acl_list |-> {}, acl_public |-> FALSE,
     name |-> nm, import_tstamp |-> t, last_use_tstamp |-> 0,
     used_count |-> 0, valid |-> TRUE, readonly |-> FALSE,
     single_use |-> su, persistent |-> pers, locked_down |-> ld,
     persist_tun |-> FALSE, alias |-> NoAlias]

\* The members the constructor leaves the object with.  locked_down has no
\* initializer, so its first value is whatever the allocation held (ld).
NewObject(creator, nm, su, pers, ld, t) ==
    [alive |-> TRUE, owner |-> creator, acl_list |-> {}, acl_public |-> FALSE,
     name |-> nm, import_tstamp |-> t, last_use_tstamp |-> 0,
     used_count |-> 0, valid |-> TRUE, readonly |-> FALSE,
     single_use |-> su, persistent |-> pers, locked_down |-> ld,
     persist_tun |-> FALSE, alias |-> NoAlias]

\* ConfigManagerObject::remove_config_object
remove_config_object(objs, cfgpath) == objs \ {cfgpath}

\* DestroyObject without IdleCheck_RefDec(): the reference stays counted.
DestroyObjectKeepsRef(id) ==
    /\ bus' = bus \ {id}
    /\ config_objects' = remove_config_object(config_objects, id)
    /\ idle_refs' = idle_refs
    /\ obj' = [obj EXCEPT ![id] = NoObject]
    /\ erased' = [erased EXCEPT ![id] = @ + 1]
    /\ UNCHANGED <<alias_bus, issued>>

\* DestroyObject without remove_callback(): the deleted object stays in
\* config_objects.
DestroyObjectKeepsEntry(id) ==
    /\ bus' = bus \ {id}
    /\ config_objects' = config_objects
    /\ idle_refs' = idle_refs - 1
    /\ obj' = [obj EXCEPT ![id] = NoObject]
    /\ erased' = [erased EXCEPT ![id] = @ + 1]
    /\ UNCHANGED <<alias_bus, issued>>

\* DestroyObject without RemoveObject(conn): the deleted object stays
\* registered on the bus.
DestroyObjectStaysOnBus(id) ==
    /\ bus' = bus
    /\ config_objects' = remove_config_object(config_objects, id)
    /\ idle_refs' = idle_refs - 1
    /\ obj' = [obj EXCEPT ![id] = NoObject]
    /\ erased' = [erased EXCEPT ![id] = @ + 1]
    /\ UNCHANGED <<alias_bus, issued>>

\* RemoveObject(conn) followed by delete this: the path leaves the bus, and
\* ~ConfigurationObject runs remove_callback and IdleCheck_RefDec; the
\* object's memory is released.  The alias object, if any, is not touched.
DestroyObject(id) ==
    /\ bus' = bus \ {id}
    /\ config_objects' = remove_config_object(config_objects, id)
    /\ idle_refs' = idle_refs - 1
    /\ obj' = [obj EXCEPT ![id] = NoObject]
    /\ erased' = [erased EXCEPT ![id] = @ + 1]
    /\ UNCHANGED <<alias_bus, issued>>

KeepRegistry ==
    UNCHANGED <<config_objects, bus, alias_bus, issued, idle_refs, erased>>

\* A handler that ends in a DBusCredentialsException: warning, error reply.
Denied(op, sender, id, arg) ==
    /\ last' = Reply(op, sender, id, "AccessDenied", arg, <<>>)
    /\ log' = <<"LogWarn">>
    /\ UNCHANGED obj
    /\ KeepRegistry

\* A handler that only replies (an error, or the value of a no-op).
Refused(op, sender, id, arg, err) ==
    /\ last' = Reply(op, sender, id, err, arg, <<>>)
    /\ log' = <<>>
    /\ UNCHANGED obj
    /\ KeepRegistry

\* FetchAuth with the lock-down branch left out.
FetchAuthNoLockDown(o, sender) == CheckACL(o, sender, TRUE)

\* The access check of Fetch.
FetchAuth(o, sender) ==
    IF ~o.locked_down
    THEN CheckACL(o, sender, TRUE)
    ELSE CheckOwnerAccess(o, sender, TRUE)

\* FetchJSONAuth with the root bypass of Fetch copied over.
FetchJSONAuthAllowRoot(o, sender) ==
    IF ~o.locked_down
    THEN CheckACL(o, sender, TRUE)
    ELSE CheckOwnerAccess(o, sender, TRUE)

\* The access check of FetchJSON.
FetchJSONAuth(o, sender) ==
    IF ~o.locked_down
    THEN CheckACL(o, sender, FALSE)
    ELSE CheckOwnerAccess(o, sender, FALSE)

\* FetchIsUse without the uid test.
FetchIsUseAnyCaller(sender) == TRUE

\* Fetch counts as a use of the configuration when the caller is root.
FetchIsUse(sender) == GetUID(sender) = Root

\* FetchConsumes with the single-use test lost.
FetchConsumesNever(o) == FALSE

\* A used configuration is deleted when it is tagged single-use.
FetchConsumes(o) == o.single_use

\* OnFetch with the catch block reached after the value was sent: the error
\* goes out on the same invocation.
OnFetchRepliesTwice(sender, id, t) ==
    LET o == obj[id] IN
    IF ~FetchAuth(o, sender) THEN Denied("Fetch", sender, id, <<>>)
    ELSE IF ~FetchIsUse(sender) THEN
        /\ last' = [Reply("Fetch", sender, id, "ok", <<>>, <<>>)
                       EXCEPT !.sent = <<"value", "error">>]
        /\ log' = <<"LogWarn">>
        /\ UNCHANGED obj
        /\ KeepRegistry
    ELSE IF FetchConsumes(o) THEN
        /\ last' = Reply("Fetch", sender, id, "ok", <<>>, <<>>)
        /\ log' = <<"Single-use configuration fetched",
                    "Configuration removed">>
        /\ DestroyObject(id)
    ELSE
        /\ o.used_count < MaxUsed
        /\ last' = Reply("Fetch", sender, id, "ok", <<>>, <<>>)
        /\ log' = <<>>
        /\ obj' = [obj EXCEPT ![id].used_count = @ + 1,
                              ![id].last_use_tstamp = t]
        /\ KeepRegistry

\* callback_method_call, "Fetch"
OnFetch(sender, id, t) ==
    LET o == obj[id] IN
    IF ~FetchAuth(o, sender) THEN Denied("Fetch", sender, id, <<>>)
    ELSE IF ~FetchIsUse(sender) THEN
        /\ last' = Reply("Fetch", sender, id, "ok", <<>>, <<>>)
        /\ log' = <<>>
        /\ UNCHANGED obj
        /\ KeepRegistry
    ELSE IF FetchConsumes(o) THEN
        /\ last' = Reply("Fetch", sender, id, "ok", <<>>, <<>>)
        /\ log' = <<"Single-use configuration fetched",
                    "Configuration removed">>
        /\ DestroyObject(id)
    ELSE
        /\ o.used_count < MaxUsed
        /\ last' = Reply("Fetch", sender, id, "ok", <<>>, <<>>)
        /\ log' = <<>>
        /\ obj' = [obj EXCEPT ![id].used_count = @ + 1,
                              ![id].last_use_tstamp = t]
        /\ KeepRegistry

\* OnFetchJSON deleting single-use configurations the way Fetch does.
OnFetchJSONConsumes(sender, id) ==
    LET o == obj[id] IN
    IF ~FetchJSONAuth(o, sender) THEN Denied("FetchJSON", sender, id, <<>>)
    ELSE IF o.single_use THEN
        /\ last' = Reply("FetchJSON", sender, id, "ok", <<>>, <<>>)
        /\ log' = <<"Single-use configuration fetched",
                    "Configuration removed">>
        /\ DestroyObject(id)
    ELSE
        /\ last' = Reply("FetchJSON", sender, id, "ok", <<>>, <<>>)
        /\ log' = <<>>
        /\ UNCHANGED obj
        /\ KeepRegistry

\* callback_method_call, "FetchJSON"
OnFetchJSON(sender, id) ==
    LET o == obj[id] IN
    IF ~FetchJSONAuth(o, sender) THEN Denied("FetchJSON", sender, id, <<>>)
    ELSE
        /\ last' = Reply("FetchJSON", sender, id, "ok", <<>>, <<>>)
        /\ log' = <<>>
        /\ UNCHANGED obj
        /\ KeepRegistry

\* callback_method_call, "SetOption"
OnSetOption(sender, id) ==
    LET o == obj[id] IN
    IF o.readonly THEN Refused("SetOption", sender, id, <<>>, "ReadOnly")
    ELSE IF ~CheckOwnerAccess(o, sender, FALSE)
    THEN Denied("SetOption", sender, id, <<>>)
    ELSE Refused("SetOption", sender, id, <<>>, "ok")  \* not implemented

\* OnAccessGrant without the readonly guard.
OnAccessGrantWhenSealed(sender, id, uid) ==
    LET o == obj[id] IN
    IF ~CheckOwnerAccess(o, sender, FALSE)
    THEN Denied("AccessGrant", sender, id, <<uid>>)
    ELSE
        /\ last' = Reply("AccessGrant", sender, id, "ok", <<uid>>, <<>>)
        /\ log' = <<"Access granted">>
        /\ obj' = [obj EXCEPT ![id] = GrantAccess(o, uid)]
        /\ KeepRegistry

\* OnAccessGrant answering a grant that is already on the list with an error.
OnAccessGrantRejectsRepeat(sender, id, uid) ==
    LET o == obj[id] IN
    IF o.readonly THEN Refused("AccessGrant", sender, id, <<uid>>, "ReadOnly")
    ELSE IF ~CheckOwnerAccess(o, sender, FALSE)
    THEN Denied("AccessGrant", sender, id, <<uid>>)
    ELSE IF uid \in o.acl_list
    THEN Denied("AccessGrant", sender, id, <<uid>>)
    ELSE
        /\ last' = Reply("AccessGrant", sender, id, "ok", <<uid>>, <<>>)
        /\ log' = <<"Access granted">>
        /\ obj' = [obj EXCEPT ![id] = GrantAccess(o, uid)]
        /\ KeepRegistry

\* callback_method_call, "AccessGrant"
OnAccessGrant(sender, id, uid) ==
    LET o == obj[id] IN
    IF o.readonly THEN Refused("AccessGrant", sender, id, <<uid>>, "ReadOnly")
    ELSE IF ~CheckOwnerAccess(o, sender, FALSE)
    THEN Denied("AccessGrant", sender, id, <<uid>>)
    ELSE
        /\ last' = Reply("AccessGrant", sender, id, "ok", <<uid>>, <<>>)
        /\ log' = <<"Access granted">>
        /\ obj' = [obj EXCEPT ![id] = GrantAccess(o, uid)]
        /\ KeepRegistry

\* OnAccessRevoke calling GrantAccess, as the branch above it does.
OnAccessRevokeGrants(sender, id, uid) ==
    LET o == obj[id] IN
    IF o.readonly THEN Refused("AccessRevoke", sender, id, <<uid>>, "ReadOnly")
    ELSE IF ~CheckOwnerAccess(o, sender, FALSE)
    THEN Denied("AccessRevoke", sender, id, <<uid>>)
    ELSE
        /\ last' = Reply("AccessRevoke", sender, id, "ok", <<uid>>, <<>>)
        /\ log' = <<"Access revoked">>
        /\ obj' = [obj EXCEPT ![id] = GrantAccess(o, uid)]
        /\ KeepRegistry

\* callback_method_call, "AccessRevoke"
OnAccessRevoke(sender, id, uid) ==
    LET o == obj[id] IN
    IF o.readonly THEN Refused("AccessRevoke", sender, id, <<uid>>, "ReadOnly")
    ELSE IF ~CheckOwnerAccess(o, sender, FALSE)
    THEN Denied("AccessRevoke", sender, id, <<uid>>)
    ELSE
        /\ last' = Reply("AccessRevoke", sender, id, "ok", <<uid>>, <<>>)
        /\ log' = <<"Access revoked">>
        /\ obj' = [obj EXCEPT ![id] = RevokeAccess(o, uid)]
        /\ KeepRegistry

\* OnSeal setting readonly ahead of the owner check.
OnSealThenCheck(sender, id) ==
    LET o == obj[id] IN
    IF ~CheckOwnerAccess(o, sender, FALSE) THEN
        /\ last' = Reply("Seal", sender, id, "AccessDenied", <<>>, <<>>)
        /\ log' = <<"LogWarn">>
        /\ obj' = [obj EXCEPT ![id].readonly = o.valid \/ @]
        /\ KeepRegistry
    ELSE IF o.valid THEN
        /\ last' = Reply("Seal", sender, id, "ok", <<>>, <<>>)
        /\ log' = <<>>
        /\ obj' = [obj EXCEPT ![id].readonly = TRUE]
        /\ KeepRegistry
    ELSE Refused("Seal", sender, id, <<>>, "InvalidData")

\* OnSeal flipping readonly instead of setting it.
OnSealToggles(sender, id) ==
    LET o == obj[id] IN
    IF ~CheckOwnerAccess(o, sender, FALSE)
    THEN Denied("Seal", sender, id, <<>>)
    ELSE IF o.valid THEN
        /\ last' = Reply("Seal", sender, id, "ok", <<>>, <<>>)
        /\ log' = <<>>
        /\ obj' = [obj EXCEPT ![id].readonly = ~@]
        /\ KeepRegistry
    ELSE Refused("Seal", sender, id, <<>>, "InvalidData")

\* callback_method_call, "Seal"
OnSeal(sender, id) ==
    LET o == obj[id] IN
    IF ~CheckOwnerAccess(o, sender, FALSE)
    THEN Denied("Seal", sender, id, <<>>)
    ELSE IF o.valid THEN
        /\ last' = Reply("Seal", sender, id, "ok", <<>>, <<>>)
        /\ log' = <<>>
        /\ obj' = [obj EXCEPT ![id].readonly = TRUE]
        /\ KeepRegistry
    ELSE Refused("Seal", sender, id, <<>>, "InvalidData")

\* OnRemove with RemoveObject and delete this ahead of the owner check.
OnRemoveThenCheck(sender, id) ==
    LET o == obj[id] IN
    /\ last' = Reply("Remove", sender, id,
                     IF CheckOwnerAccess(o, sender, FALSE)
                     THEN "ok" ELSE "AccessDenied", <<>>, <<>>)
    /\ log' = <<"Configuration removed">>
    /\ DestroyObject(id)

\* OnRemove letting root pass the owner check.
OnRemoveAllowRoot(sender, id) ==
    LET o == obj[id] IN
    IF ~CheckOwnerAccess(o, sender, TRUE)
    THEN Denied("Remove", sender, id, <<>>)
    ELSE
        /\ last' = Reply("Remove", sender, id, "ok", <<>>, <<>>)
        /\ log' = <<"Configuration removed">>
        /\ DestroyObject(id)

\* callback_method_call, "Remove"
OnRemove(sender, id) ==
    LET o == obj[id] IN
    IF ~CheckOwnerAccess(o, sender, FALSE)
    THEN Denied("Remove", sender, id, <<>>)
    ELSE
        /\ last' = Reply("Remove", sender, id, "ok", <<>>, <<>>)
        /\ log' = <<"Configuration removed">>
        /\ DestroyObject(id)

\* OnSetOtherProperty with a branch that writes single_use.
OnSetOtherPropertyWritesFlag(sender, id, arg) ==
    IF arg[1] = "single_use" THEN
        /\ last' = Reply("Set", sender, id, "ok", arg, <<>>)
        /\ log' = <<>>
        /\ obj' = [obj EXCEPT ![id].single_use = arg[2]]
        /\ KeepRegistry
    ELSE Refused("Set", sender, id, arg, "Denied")

\* callback_set_property, the final else: any other property is refused.
OnSetOtherProperty(sender, id, arg) ==
    Refused("Set", sender, id, arg, "Denied")

\* DetachAlias leaving the old alias object registered.
DetachAliasLeaks(ab, o) == ab

\* if (nullptr != alias) { alias->RemoveObject(conn); delete alias; }
DetachAlias(ab, o) ==
    IF o.alias # NoAlias THEN [ab EXCEPT ![o.alias] = 0] ELSE ab

\* AliasCreated with the failure of RegisterObject not noticed.
AliasCreatedUnchecked(ab, aliasname) == IsAliasObjectPath(aliasname)

\* new ConfigurationAlias(...) and alias->RegisterObject(conn) both return
\* without a DBusException.
AliasCreated(ab, aliasname) ==
    IsAliasObjectPath(aliasname) /\ AliasPathFree(ab, aliasname)

\* callback_set_property: value is a string for "alias" and "name", a
\* boolean for the flags.
OnSetProperty(sender, id, prop, value) ==
    LET o    == obj[id]
        arg  == <<prop, value>>
        freed == DetachAlias(alias_bus, o)
        Done(o2) ==
            /\ last' = Reply("Set", sender, id, "ok", arg, <<>>)
            /\ obj' = [obj EXCEPT ![id] = o2]
            /\ KeepRegistry
    IN
    IF o.readonly THEN Refused("Set", sender, id, arg, "ReadOnly")
    ELSE IF ~CheckOwnerAccess(o, sender, FALSE)
    THEN Denied("Set", sender, id, arg)
    ELSE IF prop = "alias" THEN
        IF AliasCreated(freed, value) THEN
            /\ last' = Reply("Set", sender, id, "ok", arg, <<>>)
            /\ log' = <<>>
            /\ obj' = [obj EXCEPT ![id].alias = value]
            /\ alias_bus' = [freed EXCEPT ![value] = id]
            /\ UNCHANGED <<config_objects, bus, issued, idle_refs, erased>>
        ELSE
            \* the constructor or RegisterObject threw: alias stays nullptr
            /\ last' = Reply("Set", sender, id, "Exists", arg, <<>>)
            /\ log' = <<>>
            /\ obj' = [obj EXCEPT ![id].alias = NoAlias]
            /\ alias_bus' = freed
            /\ UNCHANGED <<config_objects, bus, issued, idle_refs, erased>>
    ELSE IF prop = "name" THEN
        Done([o EXCEPT !.name = value]) /\ log' = <<>>
    ELSE IF prop = "locked_down" THEN
        Done([o EXCEPT !.locked_down = value]) /\ log' = <<"lock-down flag set">>
    ELSE IF prop = "public_access" THEN
        Done(SetPublicAccess(o, value)) /\ log' = <<"Public access set">>
    ELSE IF prop = "persist_tun" THEN
        Done([o EXCEPT !.persist_tun = value]) /\ log' = <<>>
    ELSE OnSetOtherProperty(sender, id, arg)

\* The properties callback_get_property has a branch for, besides "owner".
ReadableProps == {"single_use", "persistent", "valid", "readonly", "name",
                  "import_timestamp", "last_used_timestamp", "used_count",
                  "alias", "locked_down", "public_access", "persist_tun",
                  "acl"}

\* The value callback_get_property returns for a property.
PropertyValue(o, prop) ==
    CASE prop = "single_use" -> o.single_use
      [] prop = "persistent" -> o.persistent
      [] prop = "valid" -> o.valid
      [] prop = "readonly" -> o.readonly
      [] prop = "name" -> o.name
      [] prop = "import_timestamp" -> o.import_tstamp
      [] prop = "last_used_timestamp" -> o.last_use_tstamp
      [] prop = "used_count" -> o.used_count
      [] prop = "alias" -> (IF o.alias = NoAlias THEN "" ELSE o.alias)
      [] prop = "locked_down" -> o.locked_down
      [] prop = "public_access" -> o.acl_public
      [] prop = "persist_tun" -> o.persist_tun
      [] prop = "acl" -> o.acl_list

\* GetAllowRoot letting root read every property.
GetAllowRootAlways(prop) == TRUE

\* allow_root: true for the properties available for root.
GetAllowRoot(prop) == prop = "persist_tun"

\* callback_get_property
OnGetProperty(sender, id, prop) ==
    LET o == obj[id] IN
    IF prop = "owner" THEN
        /\ last' = Reply("Get", sender, id, "ok", <<prop>>, <<o.owner>>)
        /\ log' = <<>>
        /\ UNCHANGED obj
        /\ KeepRegistry
    ELSE IF ~CheckACL(o, sender, GetAllowRoot(prop))
    THEN Denied("Get", sender, id, <<prop>>)
    ELSE IF prop \in ReadableProps THEN
        /\ last' = Reply("Get", sender, id, "ok", <<prop>>,
                         <<PropertyValue(o, prop)>>)
        /\ log' = <<>>
        /\ UNCHANGED obj
        /\ KeepRegistry
    ELSE Refused("Get", sender, id, <<prop>>, "UnknownProperty")

(* ------------------------------------------------------------------ *)
(* ConfigManagerObject                                                 *)
(* ------------------------------------------------------------------ *)

\* FreshPaths forgetting the paths of removed profiles.
FreshPathsReusesRemoved == Ids \ config_objects

\* generate_path_uuid (modelled from the spec): any path not handed out yet.
FreshPaths == Ids \ issued

\* OnImport registering the object before its content is parsed: a rejected
\* import leaves an object that is not valid in the registry.
OnImportRegistersUnparsed(sender, id, nm, parses, su, pers, ld, t) ==
    /\ id \in FreshPaths
    /\ issued' = issued \cup {id}
    /\ obj' = [obj EXCEPT
                  ![id] = [NewObject(GetUID(sender), nm, su, pers, ld, t)
                              EXCEPT !.valid = parses]]
    /\ idle_refs' = idle_refs + 1
    /\ bus' = bus \cup {id}
    /\ config_objects' = config_objects \cup {id}
    /\ last' = IF parses
               THEN Reply("Import", sender, id, "ok", <<>>, <<>>)
               ELSE Reply("Import", sender, 0, "InputRejected", <<>>, <<>>)
    /\ log' = <<"ConfigurationObject registered">>
    /\ UNCHANGED <<alias_bus, erased>>

\* callback_method_call, "Import".  parses is FALSE when parse_from_config
\* throws on the size limits; the exception leaves the handler.
OnImport(sender, id, nm, parses, su, pers, ld, t) ==
    /\ IF parses THEN
           /\ id \in FreshPaths
           /\ issued' = issued \cup {id}
           /\ obj' = [obj EXCEPT
                         ![id] = NewObject(GetUID(sender), nm, su, pers, ld, t)]
           /\ idle_refs' = idle_refs + 1
           /\ bus' = bus \cup {id}
           /\ config_objects' = config_objects \cup {id}
           /\ last' = Reply("Import", sender, id, "ok", <<>>, <<>>)
           /\ log' = <<"ConfigurationObject registered">>
       ELSE
           /\ last' = Reply("Import", sender, 0, "InputRejected", <<>>, <<>>)
           /\ log' = <<>>
           /\ UNCHANGED <<obj, idle_refs, bus, config_objects, issued>>
    /\ UNCHANGED <<alias_bus, erased>>

\* MapOrder with the comparison of the keys turned round.
RECURSIVE MapOrderDescending(_)
MapOrderDescending(objs) ==
    IF objs = {} THEN <<>>
    ELSE LET first == CHOOSE i \in objs : \A j \in objs : i >= j
         IN <<first>> \o MapOrderDescending(objs \ {first})

\* The paths of objs in the order a std::map<std::string, ...> iterates them.
RECURSIVE MapOrder(_)
MapOrder(objs) ==
    IF objs = {} THEN <<>>
    ELSE LET first == CHOOSE i \in objs : \A j \in objs : i <= j
         IN <<first>> \o MapOrder(objs \ {first})

\* The loop of FetchAvailableConfigs over paths: those whose CheckACL(sender)
\* does not throw, in order.
RECURSIVE VisibleOf(_, _)
VisibleOf(paths, sender) ==
    IF paths = <<>> THEN <<>>
    ELSE (IF CheckACL(obj[Head(paths)], sender, FALSE)
          THEN <<Head(paths)>> ELSE <<>>)
         \o VisibleOf(Tail(paths), sender)

\* The paths FetchAvailableConfigs returns to sender.
AvailableConfigs(sender) == VisibleOf(MapOrder(config_objects), sender)

\* callback_method_call, "FetchAvailableConfigs"
OnFetchAvailableConfigs(sender) ==
    /\ last' = Reply("FetchAvailableConfigs", sender, 0, "ok", <<>>,
                     AvailableConfigs(sender))
    /\ log' = <<>>
    /\ UNCHANGED obj
    /\ KeepRegistry

(* ------------------------------------------------------------------ *)
(* The bus (DBusObject, modelled from the spec): a call reaches the     *)
(* handler of the object registered at its path, one call at a time;    *)
(* a call to a path with no object is answered with an error.           *)
(* ------------------------------------------------------------------ *)

MethodNames == {"Fetch", "FetchJSON", "SetOption", "AccessGrant",
                "AccessRevoke", "Seal", "Remove", "Set"}

\* Bookkeeping of the replies seen so far (not program state): the count of
\* Fetch calls by root answered with the configuration, per live path, the
\* alias a successful alias write found on its profile, and the access list
\* a successful AccessGrant or AccessRevoke found.
Observe ==
    /\ fetched' = [i \in Ids |->
                      IF i \notin bus' THEN 0
                      ELSE IF /\ last'.op = "Fetch" /\ last'.id = i
                              /\ last'.sender = Root /\ last'.res = "ok"
                           THEN fetched[i] + 1
                           ELSE fetched[i]]
    /\ detached' = IF /\ last'.op = "Set" /\ last'.res = "ok"
                      /\ last'.arg[1] = "alias"
                   THEN obj[last'.id].alias
                   ELSE NoAlias
    /\ prior' = IF /\ last'.op \in {"AccessGrant", "AccessRevoke"}
                   /\ last'.res = "ok"
                THEN obj[last'.id].acl_list
                ELSE {}

UnknownObject(sender, id, op) ==
    /\ id \notin bus
    /\ last' = Reply(op, sender, id, "NotFound", <<>>, <<>>)
    /\ log' = <<>>
    /\ UNCHANGED <<obj, pending>>
    /\ KeepRegistry
    /\ Observe

Fetch(sender, id, t) ==
    id \in bus /\ OnFetch(sender, id, t) /\ Observe /\ UNCHANGED pending

FetchJSON(sender, id) ==
    id \in bus /\ OnFetchJSON(sender, id) /\ Observe /\ UNCHANGED pending

SetOption(sender, id) ==
    id \in bus /\ OnSetOption(sender, id) /\ Observe /\ UNCHANGED pending

AccessGrant(sender, id, uid) ==
    id \in bus /\ OnAccessGrant(sender, id, uid) /\ Observe
    /\ UNCHANGED pending

AccessRevoke(sender, id, uid) ==
    id \in bus /\ OnAccessRevoke(sender, id, uid) /\ Observe
    /\ UNCHANGED pending

Seal(sender, id) ==
    id \in bus /\ OnSeal(sender, id) /\ Observe /\ UNCHANGED pending

Remove(sender, id) ==
    id \in bus /\ OnRemove(sender, id) /\ Observe /\ UNCHANGED pending

SetProperty(sender, id, prop, value) ==
    id \in bus /\ OnSetProperty(sender, id, prop, value) /\ Observe
    /\ UNCHANGED pending

GetProperty(sender, id, prop) ==
    id \in bus /\ OnGetProperty(sender, id, prop) /\ Observe
    /\ UNCHANGED pending

Import(sender, id, nm, parses, su, pers, ld, t) ==
    OnImport(sender, id, nm, parses, su, pers, ld, t) /\ Observe
    /\ UNCHANGED pending

FetchAvailableConfigs(sender) ==
    OnFetchAvailableConfigs(sender) /\ Observe /\ UNCHANGED pending

\* A client sends Fetch to a path that exists; the call waits in slot k.
SendFetch(k, sender, id) ==
    /\ pending[k].op = "none"
    /\ id \in bus
    /\ pending' = [pending EXCEPT
                      ![k] = [op |-> "Fetch", sender |-> sender, id |-> id]]
    /\ UNCHANGED <<config_objects, bus, obj, alias_bus, issued, idle_refs,
                   last, log, fetched, erased, detached, prior>>

\* The main loop takes the call in slot k off the bus and handles it; the
\* slot keeps the reply.
DeliverFetch(k, t) ==
    /\ pending[k].op = "Fetch"
    /\ IF pending[k].id \in bus
       THEN OnFetch(pending[k].sender, pending[k].id, t)
       ELSE /\ last' = Reply("Fetch", pending[k].sender, pending[k].id,
                             "NotFound", <<>>, <<>>)
            /\ log' = <<>>
            /\ UNCHANGED obj
            /\ KeepRegistry
    /\ Observe
    /\ pending' = [pending EXCEPT ![k].op = last'.res]

(* ------------------------------------------------------------------ *)
(* Specifications                                                      *)
(* ------------------------------------------------------------------ *)

\* The values a caller may send for a property.
PropValues(prop) ==
    IF prop = "alias" THEN AliasInputs
    ELSE IF prop = "name" THEN NameInputs
    ELSE BOOLEAN

\* generate_path_uuid restricted to the least unused path.
NextPath == {i \in FreshPaths : \A j \in FreshPaths : i <= j}

\* Calls to paths whose object is gone.
Stray ==
    \E s \in Subjects, id \in issued, op \in MethodNames :
        UnknownObject(s, id, op)

\* One profile at a time, every method, the access-control properties.
NextAccess ==
    \/ \E s \in Subjects, id \in NextPath, parses \in BOOLEAN,
          su \in BOOLEAN, ld \in BOOLEAN, t \in Clock :
          config_objects = {}
          /\ Import(s, id, "work", parses, su, FALSE, ld, t)
    \/ \E s \in Subjects : FetchAvailableConfigs(s)
    \/ \E s \in Subjects, id \in Ids, t \in Clock : Fetch(s, id, t)
    \/ \E s \in Subjects, id \in Ids : FetchJSON(s, id)
    \/ \E s \in Subjects, id \in Ids : SetOption(s, id)
    \/ \E s \in Subjects, id \in Ids, uid \in Subjects :
          AccessGrant(s, id, uid)
    \/ \E s \in Subjects, id \in Ids, uid \in Subjects :
          AccessRevoke(s, id, uid)
    \/ \E s \in Subjects, id \in Ids : Seal(s, id)
    \/ \E s \in Subjects, id \in Ids : Remove(s, id)
    \/ \E s \in Subjects, id \in Ids,
          prop \in {"locked_down", "public_access", "owner"} :
          \E value \in PropValues(prop) : SetProperty(s, id, prop, value)
    \/ Stray

SpecAccess == Init /\ [][NextAccess]_vars

\* A single profile, owned by user 1000, every method and every writable
\* property, with user 2000 the only uid granted or revoked.
WritableProps == {"alias", "name", "locked_down", "public_access",
                  "persist_tun"}

NextMeta ==
    \/ \E id \in NextPath, t \in Clock :
          issued = {}
          /\ Import(1000, id, "work", TRUE, FALSE, FALSE, FALSE, t)
    \/ \E s \in Subjects : FetchAvailableConfigs(s)
    \/ \E s \in Subjects, id \in Ids, t \in Clock : Fetch(s, id, t)
    \/ \E s \in Subjects, id \in Ids : FetchJSON(s, id)
    \/ \E s \in Subjects, id \in Ids : SetOption(s, id)
    \/ \E s \in Subjects, id \in Ids : AccessGrant(s, id, 2000)
    \/ \E s \in Subjects, id \in Ids : AccessRevoke(s, id, 2000)
    \/ \E s \in Subjects, id \in Ids : Seal(s, id)
    \/ \E s \in Subjects, id \in Ids : Remove(s, id)
    \/ \E s \in Subjects, id \in Ids, prop \in WritableProps :
          \E value \in PropValues(prop) : SetProperty(s, id, prop, value)
    \/ Stray

SpecMeta == Init /\ [][NextMeta]_vars

\* One profile at a time; Fetch calls are sent while the profile exists and
\* are handled later, in any order.
NextRace ==
    \/ \E s \in Subjects, id \in NextPath, su \in BOOLEAN, ld \in BOOLEAN,
          t \in Clock :
          config_objects = {}
          /\ Import(s, id, "work", TRUE, su, FALSE, ld, t)
    \/ \E k \in PendingSlots, s \in Subjects, id \in Ids : SendFetch(k, s, id)
    \/ \E k \in PendingSlots, t \in Clock : DeliverFetch(k, t)

SpecRace == Init /\ [][NextRace]_vars

\* Several profiles at a time, owned by users 1000 and 2000; alias writes,
\* Remove, and Fetch by root of the single-use ones.
NextAlias ==
    \/ \E s \in {1000, 2000}, id \in NextPath, su \in BOOLEAN, t \in Clock :
          Import(s, id, "work", TRUE, su, FALSE, FALSE, t)
    \/ \E id \in Ids, t \in Clock :
          obj[id].single_use /\ Fetch(Root, id, t)
    \/ \E s \in {1000, 2000}, id \in Ids : Remove(s, id)
    \/ \E s \in {1000, 2000}, id \in Ids, value \in AliasInputs :
          SetProperty(s, id, "alias", value)

SpecAlias == Init /\ [][NextAlias]_vars

\* Several profiles at a time, on any unused path, imported at successive
\* instants; public_access decides who sees them.
NextOrder ==
    \/ \E s \in Subjects, id \in FreshPaths, parses \in BOOLEAN :
          Import(s, id, "work", parses, FALSE, FALSE, FALSE,
                 Cardinality(issued) + 1)
    \/ \E s \in Subjects : FetchAvailableConfigs(s)
    \/ \E s \in Subjects, id \in Ids : Remove(s, id)
    \/ \E s \in Subjects, id \in Ids, value \in BOOLEAN :
          SetProperty(s, id, "public_access", value)

SpecOrder == Init /\ [][NextOrder]_vars

\* Several profiles at a time, single-use or not, imported by user 1000
\* from payloads that parse or not; Fetch and Remove by any caller.
NextIdle ==
    \/ \E id \in NextPath, parses \in BOOLEAN, su \in BOOLEAN, t \in Clock :
          Import(1000, id, "work", parses, su, FALSE, FALSE, t)
    \/ \E s \in Subjects, id \in Ids, t \in Clock : Fetch(s, id, t)
    \/ \E s \in Subjects, id \in Ids : Remove(s, id)

SpecIdle == Init /\ [][NextIdle]_vars

\* Property names a caller may ask for; "colour" is not a property.
ReadInputs == {"owner", "name", "acl", "persist_tun", "colour"}

\* A single profile, imported by user 1000 with any tags; reads of the
\* properties, writes of every property name, and every method.
NextProps ==
    \/ \E id \in NextPath, su \in BOOLEAN, pers \in BOOLEAN, t \in Clock :
          issued = {}
          /\ Import(1000, id, "work", TRUE, su, pers, FALSE, t)
    \/ \E s \in Subjects, id \in Ids, prop \in ReadInputs :
          GetProperty(s, id, prop)
    \/ \E s \in Subjects, id \in Ids,
          prop \in PropNames \ {"alias", "name"} :
          \E value \in PropValues(prop) : SetProperty(s, id, prop, value)
    \/ \E s \in Subjects, id \in Ids : SetOption(s, id)
    \/ \E s \in Subjects, id \in Ids : AccessGrant(s, id, 2000)
    \/ \E s \in Subjects, id \in Ids : AccessRevoke(s, id, 2000)
    \/ \E s \in Subjects, id \in Ids : Seal(s, id)
    \/ \E s \in Subjects, id \in Ids : Remove(s, id)
    \/ \E s \in Subjects, id \in Ids, t \in Clock : Fetch(s, id, t)
    \/ \E s \in Subjects, id \in Ids : FetchJSON(s, id)
    \/ \E s \in Subjects : FetchAvailableConfigs(s)

SpecProps == Init /\ [][NextProps]_vars

\* Profiles of user 1000, some single-use; Fetch calls wait on the bus
\* while List and Remove calls by anyone are handled in between.
NextListRace ==
    \/ \E id \in NextPath, su \in BOOLEAN, t \in Clock :
          Import(1000, id, "work", TRUE, su, FALSE, FALSE, t)
    \/ \E k \in PendingSlots, s \in {Root, 1000}, id \in Ids :
          SendFetch(k, s, id)
    \/ \E k \in PendingSlots, t \in Clock : DeliverFetch(k, t)
    \/ \E s \in Subjects : FetchAvailableConfigs(s)
    \/ \E s \in {1000, 2000}, id \in Ids : Remove(s, id)

SpecListRace == Init /\ [][NextListRace]_vars

(* ------------------------------------------------------------------ *)
(* Claims                                                              *)
(* ------------------------------------------------------------------ *)

\* The reply in last' answers a call that reached the object's handler.
Handled(op) == last'.op = op /\ last'.id \in bus

Range(seq) == {seq[i] : i \in DOMAIN seq}

\* The Read precedence with the backend bypass, as the claim words it.
ReadAllowedWithBypass(o, s) ==
    \/ s = o.owner
    \/ o.locked_down /\ s = Root
    \/ ~o.locked_down /\ (s = Root \/ s \in o.acl_list \/ o.acl_public)

\* C1: Fetch answers with the configuration exactly when the caller is the
\* owner, or the profile is locked down and the caller is root, or it is
\* not locked down and the caller is root, granted or the profile public;
\* every other Fetch is denied.
C1_FetchAuthorized ==
    [][Handled("Fetch") =>
          /\ last'.res \in {"ok", "AccessDenied"}
          /\ (last'.res = "ok")
                 <=> ReadAllowedWithBypass(obj[last'.id], last'.sender)]_vars

\* A granted caller was denied Fetch on a locked-down, public profile.
C1_Witness ==
    /\ last.op = "Fetch" /\ last.res = "AccessDenied"
    /\ last.id \in bus
    /\ obj[last.id].locked_down
    /\ obj[last.id].acl_public
    /\ last.sender \in obj[last.id].acl_list

\* The Read precedence without the backend bypass, as the claim words it.
ReadAllowedNoBypass(o, s) ==
    \/ s = o.owner
    \/ ~o.locked_down /\ (s \in o.acl_list \/ o.acl_public)

\* C2: FetchJSON succeeds on a locked-down profile only for the owner, and
\* otherwise only for the owner, a granted caller or a public profile; root
\* gets no bypass.
C2_FetchJSONNoBypass ==
    [][Handled("FetchJSON") =>
          /\ last'.res \in {"ok", "AccessDenied"}
          /\ (last'.res = "ok")
                 <=> ReadAllowedNoBypass(obj[last'.id], last'.sender)]_vars

\* Root, neither owner nor granted, was denied FetchJSON on a profile that
\* is neither public nor locked down.
C2_Witness ==
    /\ last.op = "FetchJSON" /\ last.res = "AccessDenied"
    /\ last.sender = Root
    /\ last.id \in bus
    /\ obj[last.id].owner # Root
    /\ Root \notin obj[last.id].acl_list
    /\ ~obj[last.id].acl_public
    /\ ~obj[last.id].locked_down

OwnerOps == {"SetOption", "AccessGrant", "AccessRevoke", "Seal", "Remove",
             "Set"}

\* C3: on a profile that is not sealed, an owner-mode operation is denied
\* exactly when the caller is not the owner, and a denied call changes
\* neither the profile nor the registry.
C3_OwnerOnly ==
    [][\A op \in OwnerOps :
          (Handled(op) /\ ~obj[last'.id].readonly) =>
              /\ (last'.res = "AccessDenied")
                     <=> (last'.sender # obj[last'.id].owner)
              /\ last'.res = "AccessDenied" =>
                     /\ obj' = obj
                     /\ config_objects' = config_objects
                     /\ bus' = bus
                     /\ alias_bus' = alias_bus]_vars

\* A granted user of a public profile they do not own was denied a write of
\* its alias, and the profile has no alias.
C3_Witness ==
    /\ last.op = "Set" /\ last.res = "AccessDenied"
    /\ last.arg[1] = "alias"
    /\ last.id \in config_objects
    /\ ~obj[last.id].readonly
    /\ last.sender # obj[last.id].owner
    /\ last.sender \in obj[last.id].acl_list
    /\ obj[last.id].acl_public
    /\ obj[last.id].alias = NoAlias

\* The lifecycle state of a path.
StateOf(cfgs, paths, o, id) ==
    IF id \in cfgs THEN (IF o[id].readonly THEN "Sealed" ELSE "Valid")
    ELSE IF id \in paths THEN "Removed"
    ELSE "Unborn"

\* C4: a profile's state only moves Valid -> Sealed, Valid -> Removed or
\* Sealed -> Removed (after its import); readonly is never cleared and a
\* removed path is never registered again.
C4_LifecycleMonotone ==
    [][\A id \in Ids :
          LET a == StateOf(config_objects, issued, obj, id)
              b == StateOf(config_objects', issued', obj', id)
          IN \/ a = b
             \/ <<a, b>> \in {<<"Unborn", "Valid">>, <<"Valid", "Sealed">>,
                              <<"Valid", "Removed">>,
                              <<"Sealed", "Removed">>}]_vars

\* An Import succeeded after an earlier profile had been removed; the new
\* profile has a path of its own.
C4_Witness ==
    /\ last.op = "Import" /\ last.res = "ok"
    /\ last.id \in config_objects
    /\ \E i \in issued : i \notin config_objects

\* C5: a successful Fetch by root on a single-use profile removes it in the
\* same step (gone from the registry, from the bus and from every caller's
\* list), and every later call to a removed path is answered NotFound.
C5_SingleUseConsumed ==
    [][/\ (Handled("Fetch") /\ last'.sender = Root /\ last'.res = "ok"
           /\ obj[last'.id].single_use) =>
              /\ last'.id \notin config_objects'
              /\ last'.id \notin bus'
              /\ \A s \in Subjects :
                     last'.id \notin Range(AvailableConfigs(s)')
       /\ (last'.op \in MethodNames /\ last'.id \in issued
           /\ last'.id \notin bus) => last'.res = "NotFound"]_vars

\* Root's Fetch was answered with the configuration and the path is gone.
C5_Witness ==
    /\ last.op = "Fetch" /\ last.sender = Root /\ last.res = "ok"
    /\ last.id \in issued
    /\ last.id \notin config_objects
    /\ erased[last.id] = 1

\* C7: FetchJSON by anyone and Fetch by a caller other than root leave a
\* profile, single-use or not, registered and unchanged.
C7_OnlyRootFetchConsumes ==
    [][(Handled("FetchJSON") \/ (Handled("Fetch") /\ last'.sender # Root)) =>
          /\ config_objects' = config_objects
          /\ bus' = bus
          /\ obj' = obj
          /\ last'.id \in config_objects'
          /\ FetchAuth(obj'[last'.id], Root)]_vars

\* Root read a single-use profile with FetchJSON and it is still there.
C7_Witness ==
    /\ last.op = "FetchJSON" /\ last.sender = Root /\ last.res = "ok"
    /\ last.id \in config_objects
    /\ obj[last.id].single_use

\* C8: a live profile's used_count is the number of Fetch calls by root
\* that were answered with its configuration.
C8_UsedCount ==
    \A id \in bus : obj[id].used_count = fetched[id]

\* A profile fetched twice by root, then read by someone else.
C8_Witness ==
    /\ last.op \in {"Fetch", "FetchJSON"} /\ last.sender # Root
    /\ last.res = "ok"
    /\ last.id \in bus
    /\ obj[last.id].used_count = 2
    /\ fetched[last.id] = 2

\* Slots whose Fetch, sent by root to path id, was answered with res.
RootAnswers(id, res) ==
    {k \in PendingSlots :
        pending[k] = [op |-> res, sender |-> Root, id |-> id]}

\* C6: however Fetch calls by root on one single-use profile are ordered,
\* the profile is destroyed once: exactly one of the calls is answered with
\* the configuration, the others with NotFound, and the destructor never
\* runs a second time or on a path that is no longer registered.
C6_RaceRemovesOnce ==
    /\ bus = config_objects
    /\ \A id \in Ids :
          /\ erased[id] = (IF id \in issued \ config_objects THEN 1 ELSE 0)
          /\ id \in issued \ config_objects =>
                 Cardinality(RootAnswers(id, "ok")) = 1
          /\ id \in config_objects => RootAnswers(id, "NotFound") = {}
          /\ RootAnswers(id, "AccessDenied") = {}

\* Two Fetch calls by root raced on one profile: one got the configuration,
\* the other NotFound.
C6_Witness ==
    \E id \in Ids :
        /\ RootAnswers(id, "ok") # {}
        /\ RootAnswers(id, "NotFound") # {}

SealedFields(o) ==
    <<o.name, o.alias, o.acl_list, o.locked_down, o.acl_public,
      o.persist_tun>>

\* C9: once a profile is sealed, property writes, AccessGrant and
\* AccessRevoke are rejected for every caller and its name, alias, access
\* list, locked_down, public_access and persist_tun stay as they are, while
\* Remove by the owner still succeeds.
C9_SealedIsFrozen ==
    [][\A id \in bus :
          obj[id].readonly =>
              /\ id \in bus' =>
                     /\ SealedFields(obj'[id]) = SealedFields(obj[id])
                     /\ alias_bus' = alias_bus
              /\ (last'.id = id
                  /\ last'.op \in {"Set", "AccessGrant", "AccessRevoke"}) =>
                     last'.res \notin {"ok", "Exists", "Denied"}
              /\ (last'.id = id /\ last'.op = "Remove"
                  /\ last'.sender = obj[id].owner) =>
                     /\ last'.res = "ok"
                     /\ id \notin config_objects']_vars

\* The owner of a sealed profile with an alias and a granted user had a
\* write of persist_tun rejected.
C9_Witness ==
    /\ last.op = "Set" /\ last.res = "ReadOnly"
    /\ last.id \in bus
    /\ last.sender = obj[last.id].owner
    /\ last.arg[1] = "persist_tun"
    /\ obj[last.id].readonly
    /\ obj[last.id].alias # NoAlias
    /\ obj[last.id].acl_list # {}

\* C10: Seal by the owner succeeds when the profile is Valid and is
\* answered with an error when the profile is already Sealed.
C10_SealOnlyFromValid ==
    [][(Handled("Seal") /\ last'.sender = obj[last'.id].owner) =>
          (last'.res = "ok") <=> ~obj[last'.id].readonly]_vars

\* The call answered in last' was a write of the alias property, by the owner
\* of live, unsealed profile p, of a name bound to another live profile.
AliasTakenCall(p) ==
    /\ last'.op = "Set" /\ last'.id = p /\ p \in bus
    /\ last'.arg[1] = "alias"
    /\ last'.sender = obj[p].owner /\ ~obj[p].readonly
    /\ alias_bus[last'.arg[2]] \in config_objects \ {p}

\* C11: a write of an alias that is bound to a different profile fails with
\* the conflict error and leaves every alias binding, and the alias of the
\* profile written to, as they were.
C11_AliasConflictRollsBack ==
    [][\A p \in Ids :
          AliasTakenCall(p) =>
              /\ last'.res = "Exists"
              /\ alias_bus' = alias_bus
              /\ obj'[p].alias = obj[p].alias]_vars

\* Each path is the target of at most one registered alias, and a registered
\* alias targets a live profile exactly when it is that profile's alias.
AliasOneToOne ==
    /\ \A id \in Ids :
          Cardinality({a \in AliasInputs : alias_bus[a] = id}) <= 1
    /\ \A id \in bus : \A a \in AliasInputs :
          alias_bus[a] = id <=> obj[id].alias = a

\* C12: every path is the target of at most one alias and an alias resolves
\* to a live profile exactly when it is that profile's alias; after a
\* successful write of alias new to a profile that had alias old, new
\* resolves to the profile and old, when a different name, to nothing.
C12_OneAliasPerProfile ==
    [][/\ AliasOneToOne'
       /\ (last'.op = "Set" /\ last'.arg[1] = "alias" /\ last'.res = "ok") =>
              /\ alias_bus'[last'.arg[2]] = last'.id
              /\ obj'[last'.id].alias = last'.arg[2]
              /\ \A a \in AliasInputs \ {last'.arg[2]} :
                     alias_bus'[a] # last'.id
              /\ (obj[last'.id].alias \notin {NoAlias, last'.arg[2]}) =>
                     alias_bus'[obj[last'.id].alias] = 0]_vars

\* A profile that had alias a1 was given alias a2 while another live profile
\* holds no alias: a2 resolves to it and a1 to nothing.
C12_Witness ==
    /\ last.op = "Set" /\ last.res = "ok" /\ last.arg = <<"alias", "a2">>
    /\ detached = "a1"
    /\ last.id \in bus
    /\ obj[last.id].alias = "a2"
    /\ alias_bus["a2"] = last.id
    /\ alias_bus["a1"] = 0
    /\ bus \ {last.id} # {}

\* C13 (as amended): a write of alias A to a profile p2, by its owner, while
\* A is bound to a different live profile p1 fails with the conflict error
\* and leaves A resolving to p1 and p1's alias A.
C13_SecondAssignmentConflicts ==
    [][\A p \in Ids :
          AliasTakenCall(p) =>
              LET a == last'.arg[2]
                  q == alias_bus[a]
              IN /\ last'.res = "Exists"
                 /\ alias_bus'[a] = q
                 /\ obj'[q].alias = a]_vars

\* The owner of one live profile was refused alias a1, which is the alias
\* of another live profile.
C13_Witness ==
    /\ last.op = "Set" /\ last.res = "Exists" /\ last.arg = <<"alias", "a1">>
    /\ last.id \in bus
    /\ last.sender = obj[last.id].owner
    /\ alias_bus["a1"] \in bus \ {last.id}
    /\ obj[alias_bus["a1"]].alias = "a1"

\* C13 (as stated): the second assignment of A moves it: A resolves to p2
\* and p1 has no alias.
C13_AliasMovesToSecond ==
    [][\A p \in Ids :
          AliasTakenCall(p) =>
              LET a == last'.arg[2]
                  q == alias_bus[a]
              IN /\ alias_bus'[a] = p
                 /\ obj'[q].alias = NoAlias]_vars

\* C14: every registered alias targets a profile that is registered; the
\* removal of a profile takes its alias with it.
C14_AliasesTargetLiveProfiles ==
    \A a \in AliasInputs :
        alias_bus[a] # 0 => alias_bus[a] \in config_objects

\* C15: FetchAvailableConfigs returns exactly the registered profiles the
\* Read precedence without backend bypass allows the caller: the owner's,
\* and of the others those not locked down that are granted or public.
C15_ListAppliesReadRule ==
    [][last'.op = "FetchAvailableConfigs" =>
          Range(last'.val) =
              {id \in config_objects :
                  ReadAllowedNoBypass(obj[id], last'.sender)}]_vars

\* C16 (as amended): the sequence FetchAvailableConfigs returns is ordered
\* by object path, ascending, whatever the order of the Import calls.
C16_ListInPathOrder ==
    [][last'.op = "FetchAvailableConfigs" =>
          \A i, j \in DOMAIN last'.val :
              i < j => last'.val[i] < last'.val[j]]_vars

\* A caller was given two profiles, the one imported later first.
C16_Witness ==
    /\ last.op = "FetchAvailableConfigs"
    /\ Len(last.val) >= 2
    /\ obj[last.val[1]].import_tstamp > obj[last.val[2]].import_tstamp

\* C16 (as stated): the sequence FetchAvailableConfigs returns is ordered by
\* the order of the Import calls.
C16_ListInImportOrder ==
    [][last'.op = "FetchAvailableConfigs" =>
          \A i, j \in DOMAIN last'.val :
              i < j => obj[last'.val[i]].import_tstamp
                          < obj[last'.val[j]].import_tstamp]_vars

\* C17: an Import whose content is rejected returns no path and leaves the
\* registry, the bus, the aliases, every profile and every caller's list as
\* they were.
C17_RejectedImportCreatesNothing ==
    [][(last'.op = "Import" /\ last'.res # "ok") =>
          /\ last'.id \notin Ids
          /\ config_objects' = config_objects
          /\ bus' = bus
          /\ alias_bus' = alias_bus
          /\ obj' = obj
          /\ idle_refs' = idle_refs
          /\ \A s \in Subjects :
                 AvailableConfigs(s)' = AvailableConfigs(s)]_vars

\* An Import was rejected while a profile is registered and a path is free.
C17_Witness ==
    /\ last.op = "Import" /\ last.res = "InputRejected"
    /\ config_objects # {}
    /\ FreshPaths # {}
    /\ \E s \in Subjects : AvailableConfigs(s) # <<>>

\* C18: a successful Import, by any caller, registers one new profile owned
\* by the caller, valid, not sealed, never used, without alias and with an
\* empty access list; its path is in the caller's list, and no other
\* profile and no alias has changed.
C18_ImportRegistersOwned ==
    [][(last'.op = "Import" /\ last'.res = "ok") =>
          LET id == last'.id IN
          /\ id \in Ids \ config_objects
          /\ config_objects' = config_objects \cup {id}
          /\ bus' = bus \cup {id}
          /\ obj'[id].owner = last'.sender
          /\ obj'[id].valid /\ ~obj'[id].readonly
          /\ obj'[id].used_count = 0
          /\ obj'[id].alias = NoAlias
          /\ obj'[id].acl_list = {}
          /\ \A s \in Subjects :
                 s = last'.sender => id \in Range(AvailableConfigs(s)')
          /\ \A j \in Ids \ {id} : obj'[j] = obj[j]
          /\ alias_bus' = alias_bus]_vars

\* User 2000 imported a profile next to a public profile of another user and
\* sees both in the list.
C18_Witness ==
    /\ last.op = "Import" /\ last.res = "ok" /\ last.sender = 2000
    /\ obj[last.id].owner = 2000
    /\ \E j \in config_objects \ {last.id} :
          /\ obj[j].owner # 2000 /\ obj[j].acl_public
          /\ j \in Range(AvailableConfigs(2000))
    /\ last.id \in Range(AvailableConfigs(2000))

\* C19: the path a successful Import returns is not registered and never
\* was: no object was ever destroyed under it, and the registered profiles
\* are left as they are.
C19_PathsNeverReused ==
    [][(last'.op = "Import" /\ last'.res = "ok") =>
          /\ last'.id \notin issued
          /\ last'.id \notin config_objects \cup bus
          /\ erased[last'.id] = 0
          /\ \A j \in config_objects :
                 j \in config_objects' /\ obj'[j] = obj[j]]_vars

\* An Import succeeded after a profile had been removed, and returned a
\* path other than the removed one.
C19_Witness ==
    /\ last.op = "Import" /\ last.res = "ok"
    /\ \E j \in Ids \ {last.id} :
          /\ erased[j] = 1
          /\ j \notin config_objects
    /\ erased[last.id] = 0

\* The access list of profile id after the call answered in last'.
GrantListAfter(id) ==
    IF last'.id = id /\ last'.res = "ok" /\ last'.op = "AccessGrant"
    THEN obj[id].acl_list \cup {last'.arg[1]}
    ELSE IF last'.id = id /\ last'.res = "ok" /\ last'.op = "AccessRevoke"
    THEN obj[id].acl_list \ {last'.arg[1]}
    ELSE obj[id].acl_list

\* C20: on a profile that is neither locked down nor public, FetchJSON by a
\* caller other than the owner succeeds exactly when the caller is on the
\* access list; AccessGrant and AccessRevoke by the owner of an unsealed
\* profile succeed, the first adds the uid to the list, the second takes it
\* off, and nothing else changes the list.
C20_ReadFollowsGrants ==
    [][\A id \in bus :
          /\ (Handled("FetchJSON") /\ last'.id = id
               /\ ~obj[id].locked_down /\ ~obj[id].acl_public
               /\ last'.sender # obj[id].owner) =>
                  (last'.res = "ok" <=> last'.sender \in obj[id].acl_list)
          /\ (last'.op \in {"AccessGrant", "AccessRevoke"} /\ last'.id = id
               /\ last'.sender = obj[id].owner /\ ~obj[id].readonly) =>
                  last'.res = "ok"
          /\ id \in bus' => obj'[id].acl_list = GrantListAfter(id)]_vars

\* User 2000, granted access by user 1000 to a profile that is neither
\* public nor locked down, read it with FetchJSON.
C20_Witness ==
    /\ last.op = "FetchJSON" /\ last.res = "ok" /\ last.sender = 2000
    /\ last.id \in bus
    /\ obj[last.id].owner = 1000
    /\ obj[last.id].acl_list = {2000}
    /\ ~obj[last.id].acl_public
    /\ ~obj[last.id].locked_down

C22_ImportFieldsImmutable ==
    [][\A id \in bus :
          /\ id \in bus' =>
                 /\ obj'[id].owner = obj[id].owner
                 /\ obj'[id].single_use = obj[id].single_use
                 /\ obj'[id].persistent = obj[id].persistent
          /\ (last'.op = "Set" /\ last'.id = id
               /\ last'.arg[1] \in {"owner", "single_use", "persistent"}) =>
                 last'.res # "ok"]_vars

\* The owner of an unsealed profile that is not single-use wrote
\* single_use = TRUE and was refused.
C22_Witness ==
    /\ last.op = "Set" /\ last.res = "Denied"
    /\ last.arg = <<"single_use", TRUE>>
    /\ last.id \in bus
    /\ last.sender = obj[last.id].owner
    /\ ~obj[last.id].readonly
    /\ ~obj[last.id].single_use

\* C23: a caller other than the owner that invokes SetOption, AccessGrant,
\* AccessRevoke or a property write on a sealed profile is answered with
\* the authorization error.
C23_AccessCheckBeforeSealCheck ==
    [][\A op \in {"SetOption", "AccessGrant", "AccessRevoke", "Set"} :
          (Handled(op) /\ obj[last'.id].readonly
           /\ last'.sender # obj[last'.id].owner) =>
              last'.res = "AccessDenied"]_vars

\* C24: a path leaves the registry only in a step that answers its owner's
\* Remove, or root's Fetch on it while it is single-use, with success.
C24_RemovedOnlyByRemoveOrConsume ==
    [][\A id \in config_objects :
          id \notin config_objects' =>
              /\ last'.id = id /\ last'.res = "ok"
              /\ \/ /\ last'.op = "Remove"
                    /\ last'.sender = obj[id].owner
                 \/ /\ last'.op = "Fetch"
                    /\ last'.sender = Root
                    /\ obj[id].single_use]_vars

\* User 1000 removed the profile, which had been imported and destroyed
\* once.
C24_Witness ==
    /\ last.op = "Remove" /\ last.res = "ok" /\ last.sender = 1000
    /\ last.id \in issued \ config_objects
    /\ erased[last.id] = 1
    /\ config_objects = {}

\* C25: a write of a malformed alias name (here the empty string) by the
\* owner of an unsealed profile fails and leaves every alias binding, and
\* the profile's alias, as they were.
C25_MalformedAliasTouchesNothing ==
    [][\A p \in bus :
          (/\ last'.op = "Set" /\ last'.id = p
           /\ last'.arg = <<"alias", "">>
           /\ last'.sender = obj[p].owner /\ ~obj[p].readonly) =>
              /\ last'.res # "ok"
              /\ alias_bus' = alias_bus
              /\ obj'[p].alias = obj[p].alias]_vars

\* C26: while a profile is locked down, a read of any of its properties
\* other than owner by a caller that is not the owner is denied.
C26_LockedDownPropertyReads ==
    [][(/\ Handled("Get") /\ last'.arg[1] \in ReadableProps
        /\ obj[last'.id].locked_down
        /\ last'.sender # obj[last'.id].owner) =>
           last'.res = "AccessDenied"]_vars

IsStateChangeEvent(e) == e # "LogWarn"

\* The call answered in last' succeeded and is one that changes state.
StateChangingCall ==
    /\ last'.res = "ok"
    /\ \/ last'.op \in {"Import", "Seal", "Remove", "AccessGrant",
                        "AccessRevoke", "Set"}
       \/ /\ last'.op = "Fetch" /\ last'.sender = Root
          /\ obj[last'.id].single_use

\* C28: a successful Import, Seal, Remove, single-use consumption,
\* AccessGrant, AccessRevoke or property write emits exactly one log event
\* before the next call is handled, and a call answered with an error emits
\* none besides the warning.
C28_OneEventPerChange ==
    [][/\ StateChangingCall =>
              Len(SelectSeq(log', IsStateChangeEvent)) = 1
       /\ (last'.op # "none" /\ last'.res # "ok") =>
              SelectSeq(log', IsStateChangeEvent) = <<>>]_vars

\* C29: whatever calls are handled around it, FetchAvailableConfigs walks
\* only live profiles: the registry holds exactly the paths registered on
\* the bus, each with its object, and every path the call returns is one
\* of them.
C29_ListSeesOnlyLiveProfiles ==
    [][/\ config_objects' = bus'
       /\ \A id \in config_objects' : obj'[id].alive
       /\ last'.op = "FetchAvailableConfigs" =>
              \A id \in Range(last'.val) :
                  /\ id \in config_objects' \cap bus'
                  /\ obj'[id].alive]_vars

\* A caller listed the profiles while a Fetch call was waiting on the bus
\* and after a profile had been removed: the list holds a live profile and
\* not the removed one.
C29_Witness ==
    /\ last.op = "FetchAvailableConfigs"
    /\ last.val # <<>>
    /\ \E k \in PendingSlots : pending[k].op = "Fetch"
    /\ \E j \in Ids : erased[j] = 1 /\ j \notin Range(last.val)

DeniableOps == {"Fetch", "FetchJSON", "Seal", "Remove", "AccessGrant",
                "AccessRevoke", "Set"}

\* C31: a Fetch, FetchJSON, Seal, Remove, AccessGrant, AccessRevoke or
\* property write answered with AccessDenied leaves the registry, the bus
\* registrations, the aliases and every field of every profile (state,
\* name, alias, flags, granted set, used_count, last_use_tstamp) as they
\* were before the call.
C31_DeniedChangesNothing ==
    [][\A op \in DeniableOps :
          Handled(op) /\ last'.res = "AccessDenied" =>
              /\ config_objects' = config_objects
              /\ bus' = bus
              /\ alias_bus' = alias_bus
              /\ obj' = obj
              /\ issued' = issued
              /\ idle_refs' = idle_refs]_vars

\* User 2000, granted access, was denied a property write on an unsealed
\* profile that carries an alias.
C31_Witness ==
    /\ last.op = "Set" /\ last.res = "AccessDenied" /\ last.sender = 2000
    /\ last.id \in config_objects \cap bus
    /\ obj[last.id].acl_list = {2000}
    /\ obj[last.id].alias # NoAlias
    /\ alias_bus[obj[last.id].alias] = last.id
    /\ ~obj[last.id].readonly

\* C32: the IdleCheck reference count equals the number of profiles in
\* config_objects and is never negative; an Import that returns a path
\* adds one, an Import whose construction fails adds none, and each
\* destruction of a profile (Remove, root's Fetch of a single-use profile)
\* takes exactly one away, so the count is back at its initial value when
\* no profile is left.
C32_IdleRefsCountProfiles ==
    [][/\ idle_refs = Cardinality(config_objects)
       /\ idle_refs' = Cardinality(config_objects')
       /\ idle_refs' >= 0
       /\ config_objects' = {} => idle_refs' = 0
       /\ last'.op = "Import" =>
              idle_refs' = idle_refs + (IF last'.res = "ok" THEN 1 ELSE 0)
       /\ \A id \in Ids :
              /\ erased'[id] = erased[id] + 1 => idle_refs' = idle_refs - 1
              /\ erased'[id] \in {erased[id], erased[id] + 1}
              /\ erased'[id] <= 1
       /\ idle_refs' < idle_refs =>
              /\ last'.op \in {"Remove", "Fetch"}
              /\ last'.res = "ok"
              /\ erased'[last'.id] = erased[last'.id] + 1]_vars

\* Every path was issued and every profile destroyed again, the last one by
\* root's Fetch of a single-use profile: the count is back at zero.
C32_Witness ==
    /\ issued = Ids
    /\ config_objects = {}
    /\ idle_refs = 0
    /\ \A id \in Ids : erased[id] = 1
    /\ last.op = "Fetch" /\ last.sender = Root /\ last.res = "ok"

====
